---- MODULE Spec2Model ----
(***************************************************************************)
(* Model of data_structures/binary_trees/binary_search_tree.c: an          *)
(* unbalanced binary search tree of int keys, driven by the menu loop of   *)
(* main().  Nodes live in a heap of MaxNodes cells; a node pointer is a    *)
(* cell address, NULL is 0.  Every function of the source is an operator   *)
(* over the heap that returns the new heap, the returned pointer and the   *)
(* trace of memory events (allocation, read, write, free) it performs, in  *)
(* program order.                                                          *)
(***************************************************************************)
EXTENDS Integers, Sequences, FiniteSets, TLC

\* ---------------------------------------------------------------- bounds
MaxNodes == 5                      \* heap cells malloc can hand out
Keys == {1, 3, 4, 5, 8}            \* values typed at "Enter the new node's value"
FindKeys == Keys \cup {9}          \* values typed at "Enter the searched value"

NULL == 0
Addrs == 1..MaxNodes

\* Content of a cell that is not allocated (never read by the program).
Garbage == [left |-> NULL, right |-> NULL, data |-> 0]

VARIABLES
    heap,      \* [Addrs -> node]: the struct node stored in each cell
    alloc,     \* cells malloc'ed and not yet freed
    root,      \* main's local `node *root`
    pc,        \* position of main: "menu", "loopDone", "exit", "crashed"
    keys,      \* abstract set: keys inserted and not subsequently deleted
    op,        \* last call made by main: [name, arg, ret, ev]
    pre        \* heap, alloc and root as they were before that call

vars == <<heap, alloc, root, pc, keys, op, pre>>

\* ---------------------------------------------------------------- events
Ev(kind, a) == <<kind, a>>

\* ---------------------------------------------------------------- malloc
\* The cell malloc(sizeof(node)) returns: the lowest free cell, NULL when the
\* heap is exhausted.  The program never compares, orders or prints
\* addresses, so which free cell is handed out does not influence it.
\* The heap has a cell for every key of Keys, so the menu never exhausts it.
malloc(al) ==
    IF Addrs \ al = {} THEN NULL
    ELSE CHOOSE x \in Addrs \ al : \A y \in Addrs \ al : x <= y

\* ---------------------------------------------------------------- newNode
\* `a` is what malloc returned.  The stores of lines 31-33 go through it
\* unchecked: with a = NULL the first one faults and newNode does not return.
newNode(h, a, data) ==
    IF a = NULL
    THEN [crash |-> TRUE, ev |-> <<Ev("alloc", a), Ev("segv", a)>>]
    ELSE [crash |-> FALSE,
          h |-> [h EXCEPT ![a] = [left |-> NULL, right |-> NULL, data |-> data]],
          tmp |-> a,
          ev |-> <<Ev("alloc", a)>>]

\* ---------------------------------------------------------------- insert
\* `a` is the address the (single possible) malloc call returns.  When
\* newNode faults on it, no call of the recursion returns: the result carries
\* no heap and no pointer, and no parent link is written.

\* Mutant: an equal key is sent to the right subtree instead of being ignored.
RECURSIVE insert_dupRight(_, _, _, _)
insert_dupRight(h, r, data, a) ==
    IF r = NULL THEN
        LET n == newNode(h, a, data) IN
        IF n.crash
        THEN [crash |-> TRUE, ev |-> n.ev]
        ELSE [crash |-> FALSE, h |-> n.h, root |-> n.tmp, ev |-> n.ev]
    ELSE IF data >= h[r].data THEN
        LET s == insert_dupRight(h, h[r].right, data, a) IN
        IF s.crash
        THEN [crash |-> TRUE, ev |-> <<Ev("rd", r)>> \o s.ev]
        ELSE [crash |-> FALSE,
              h |-> [s.h EXCEPT ![r].right = s.root],
              root |-> r,
              ev |-> <<Ev("rd", r)>> \o s.ev \o <<Ev("wr", r)>>]
    ELSE IF data < h[r].data THEN
        LET s == insert_dupRight(h, h[r].left, data, a) IN
        IF s.crash
        THEN [crash |-> TRUE, ev |-> <<Ev("rd", r)>> \o s.ev]
        ELSE [crash |-> FALSE,
              h |-> [s.h EXCEPT ![r].left = s.root],
              root |-> r,
              ev |-> <<Ev("rd", r)>> \o s.ev \o <<Ev("wr", r)>>]
    ELSE
        [crash |-> FALSE, h |-> h, root |-> r, ev |-> <<Ev("rd", r)>>]

\* Mutant: the two comparisons are exchanged (greater keys go left).
RECURSIVE insert_swapped(_, _, _, _)
insert_swapped(h, r, data, a) ==
    IF r = NULL THEN
        LET n == newNode(h, a, data) IN
        IF n.crash
        THEN [crash |-> TRUE, ev |-> n.ev]
        ELSE [crash |-> FALSE, h |-> n.h, root |-> n.tmp, ev |-> n.ev]
    ELSE IF data < h[r].data THEN
        LET s == insert_swapped(h, h[r].right, data, a) IN
        IF s.crash
        THEN [crash |-> TRUE, ev |-> <<Ev("rd", r)>> \o s.ev]
        ELSE [crash |-> FALSE,
              h |-> [s.h EXCEPT ![r].right = s.root],
              root |-> r,
              ev |-> <<Ev("rd", r)>> \o s.ev \o <<Ev("wr", r)>>]
    ELSE IF data > h[r].data THEN
        LET s == insert_swapped(h, h[r].left, data, a) IN
        IF s.crash
        THEN [crash |-> TRUE, ev |-> <<Ev("rd", r)>> \o s.ev]
        ELSE [crash |-> FALSE,
              h |-> [s.h EXCEPT ![r].left = s.root],
              root |-> r,
              ev |-> <<Ev("rd", r)>> \o s.ev \o <<Ev("wr", r)>>]
    ELSE
        [crash |-> FALSE, h |-> h, root |-> r, ev |-> <<Ev("rd", r)>>]

RECURSIVE insert(_, _, _, _)
insert(h, r, data, a) ==
    IF r = NULL THEN
        LET n == newNode(h, a, data) IN
        IF n.crash
        THEN [crash |-> TRUE, ev |-> n.ev]
        ELSE [crash |-> FALSE, h |-> n.h, root |-> n.tmp, ev |-> n.ev]
    ELSE IF data > h[r].data THEN
        LET s == insert(h, h[r].right, data, a) IN
        IF s.crash
        THEN [crash |-> TRUE, ev |-> <<Ev("rd", r)>> \o s.ev]
        ELSE [crash |-> FALSE,
              h |-> [s.h EXCEPT ![r].right = s.root],
              root |-> r,
              ev |-> <<Ev("rd", r)>> \o s.ev \o <<Ev("wr", r)>>]
    ELSE IF data < h[r].data THEN
        LET s == insert(h, h[r].left, data, a) IN
        IF s.crash
        THEN [crash |-> TRUE, ev |-> <<Ev("rd", r)>> \o s.ev]
        ELSE [crash |-> FALSE,
              h |-> [s.h EXCEPT ![r].left = s.root],
              root |-> r,
              ev |-> <<Ev("rd", r)>> \o s.ev \o <<Ev("wr", r)>>]
    ELSE
        [crash |-> FALSE, h |-> h, root |-> r, ev |-> <<Ev("rd", r)>>]

\* ---------------------------------------------------------------- getMax
\* Mutant: no descent to the right, the argument itself is returned.
getMax_noDescent(h, r) == r

\* Mutant: the descent goes to the left, reaching the least key.
RECURSIVE getMax_leftmost(_, _)
getMax_leftmost(h, r) ==
    IF h[r].left # NULL THEN getMax_leftmost(h, h[r].left) ELSE r

\* Mutant: a single step to the right instead of the full descent.
getMax_oneStep(h, r) ==
    IF h[r].right # NULL THEN h[r].right ELSE r

RECURSIVE getMax(_, _)
getMax(h, r) ==
    IF h[r].right # NULL THEN getMax(h, h[r].right) ELSE r

RECURSIVE getMaxEv(_, _)
getMaxEv(h, r) ==
    IF h[r].right # NULL
    THEN <<Ev("rd", r)>> \o getMaxEv(h, h[r].right)
    ELSE <<Ev("rd", r)>>

\* ---------------------------------------------------------------- delete
\* Mutant: in the two-child case the greatest key of the RIGHT subtree is copied
\* and removed.
RECURSIVE delete_maxOfRight(_, _, _)
delete_maxOfRight(h, r, data) ==
    IF r = NULL THEN
        [h |-> h, root |-> r, ev |-> <<>>,
         path |-> <<Ev("null", r)>>, gm |-> <<>>]
    ELSE IF data > h[r].data THEN
        LET s == delete_maxOfRight(h, h[r].right, data) IN
        [h |-> [s.h EXCEPT ![r].right = s.root],
         root |-> r,
         ev |-> <<Ev("rd", r)>> \o s.ev \o <<Ev("wr", r)>>,
         path |-> <<Ev("right", r)>> \o s.path, gm |-> s.gm]
    ELSE IF data < h[r].data THEN
        LET s == delete_maxOfRight(h, h[r].left, data) IN
        [h |-> [s.h EXCEPT ![r].left = s.root],
         root |-> r,
         ev |-> <<Ev("rd", r)>> \o s.ev \o <<Ev("wr", r)>>,
         path |-> <<Ev("left", r)>> \o s.path, gm |-> s.gm]
    ELSE IF h[r].left = NULL /\ h[r].right = NULL THEN
        [h |-> [h EXCEPT ![r] = Garbage],
         root |-> NULL,
         ev |-> <<Ev("rd", r), Ev("free", r)>>,
         path |-> <<Ev("leaf", r)>>, gm |-> <<>>]
    ELSE IF h[r].left = NULL THEN
        [h |-> [h EXCEPT ![r] = Garbage],
         root |-> h[r].right,
         ev |-> <<Ev("rd", r), Ev("free", r)>>,
         path |-> <<Ev("onlyRight", r)>>, gm |-> <<>>]
    ELSE IF h[r].right = NULL THEN
        [h |-> [h EXCEPT ![r] = Garbage],
         root |-> h[r].left,
         ev |-> <<Ev("rd", r), Ev("free", r)>>,
         path |-> <<Ev("onlyLeft", r)>>, gm |-> <<>>]
    ELSE
        LET tmp == getMax(h, h[r].right)
            h1  == [h EXCEPT ![r].data = h[tmp].data]
            s   == delete_maxOfRight(h1, h1[r].right, h1[tmp].data)
        IN
        [h |-> [s.h EXCEPT ![r].right = s.root],
         root |-> r,
         ev |-> <<Ev("rd", r)>> \o getMaxEv(h, h[r].left)
                \o <<Ev("rd", tmp), Ev("wr", r), Ev("rd", r), Ev("rd", tmp)>>
                \o s.ev \o <<Ev("wr", r)>>,
         path |-> <<Ev("two", r)>> \o s.path,
         gm |-> <<Ev(h[r].left, tmp)>> \o s.gm]

\* Mutant: a node with only a right child is removed together with that child.
RECURSIVE delete_dropChild(_, _, _)
delete_dropChild(h, r, data) ==
    IF r = NULL THEN
        [h |-> h, root |-> r, ev |-> <<>>,
         path |-> <<Ev("null", r)>>, gm |-> <<>>]
    ELSE IF data > h[r].data THEN
        LET s == delete_dropChild(h, h[r].right, data) IN
        [h |-> [s.h EXCEPT ![r].right = s.root],
         root |-> r,
         ev |-> <<Ev("rd", r)>> \o s.ev \o <<Ev("wr", r)>>,
         path |-> <<Ev("right", r)>> \o s.path, gm |-> s.gm]
    ELSE IF data < h[r].data THEN
        LET s == delete_dropChild(h, h[r].left, data) IN
        [h |-> [s.h EXCEPT ![r].left = s.root],
         root |-> r,
         ev |-> <<Ev("rd", r)>> \o s.ev \o <<Ev("wr", r)>>,
         path |-> <<Ev("left", r)>> \o s.path, gm |-> s.gm]
    ELSE IF h[r].left = NULL /\ h[r].right = NULL THEN
        [h |-> [h EXCEPT ![r] = Garbage],
         root |-> NULL,
         ev |-> <<Ev("rd", r), Ev("free", r)>>,
         path |-> <<Ev("leaf", r)>>, gm |-> <<>>]
    ELSE IF h[r].left = NULL THEN
        [h |-> [h EXCEPT ![r] = Garbage],
         root |-> NULL,
         ev |-> <<Ev("rd", r), Ev("free", r)>>,
         path |-> <<Ev("onlyRight", r)>>, gm |-> <<>>]
    ELSE IF h[r].right = NULL THEN
        [h |-> [h EXCEPT ![r] = Garbage],
         root |-> h[r].left,
         ev |-> <<Ev("rd", r), Ev("free", r)>>,
         path |-> <<Ev("onlyLeft", r)>>, gm |-> <<>>]
    ELSE
        LET tmp == getMax(h, h[r].left)
            h1  == [h EXCEPT ![r].data = h[tmp].data]
            s   == delete_dropChild(h1, h1[r].left, h1[tmp].data)
        IN
        [h |-> [s.h EXCEPT ![r].left = s.root],
         root |-> r,
         ev |-> <<Ev("rd", r)>> \o getMaxEv(h, h[r].left)
                \o <<Ev("rd", tmp), Ev("wr", r), Ev("rd", r), Ev("rd", tmp)>>
                \o s.ev \o <<Ev("wr", r)>>,
         path |-> <<Ev("two", r)>> \o s.path,
         gm |-> <<Ev(h[r].left, tmp)>> \o s.gm]

\* Mutant: a search that runs off the right end removes the last node visited.
RECURSIVE delete_nearest(_, _, _)
delete_nearest(h, r, data) ==
    IF r = NULL THEN
        [h |-> h, root |-> r, ev |-> <<>>,
         path |-> <<Ev("null", r)>>, gm |-> <<>>]
    ELSE IF data > h[r].data /\ h[r].right = NULL THEN
        [h |-> [h EXCEPT ![r] = Garbage],
         root |-> h[r].left,
         ev |-> <<Ev("rd", r), Ev("free", r)>>,
         path |-> <<Ev("onlyLeft", r)>>, gm |-> <<>>]
    ELSE IF data > h[r].data THEN
        LET s == delete_nearest(h, h[r].right, data) IN
        [h |-> [s.h EXCEPT ![r].right = s.root],
         root |-> r,
         ev |-> <<Ev("rd", r)>> \o s.ev \o <<Ev("wr", r)>>,
         path |-> <<Ev("right", r)>> \o s.path, gm |-> s.gm]
    ELSE IF data < h[r].data THEN
        LET s == delete_nearest(h, h[r].left, data) IN
        [h |-> [s.h EXCEPT ![r].left = s.root],
         root |-> r,
         ev |-> <<Ev("rd", r)>> \o s.ev \o <<Ev("wr", r)>>,
         path |-> <<Ev("left", r)>> \o s.path, gm |-> s.gm]
    ELSE IF h[r].left = NULL /\ h[r].right = NULL THEN
        [h |-> [h EXCEPT ![r] = Garbage],
         root |-> NULL,
         ev |-> <<Ev("rd", r), Ev("free", r)>>,
         path |-> <<Ev("leaf", r)>>, gm |-> <<>>]
    ELSE IF h[r].left = NULL THEN
        [h |-> [h EXCEPT ![r] = Garbage],
         root |-> h[r].right,
         ev |-> <<Ev("rd", r), Ev("free", r)>>,
         path |-> <<Ev("onlyRight", r)>>, gm |-> <<>>]
    ELSE IF h[r].right = NULL THEN
        [h |-> [h EXCEPT ![r] = Garbage],
         root |-> h[r].left,
         ev |-> <<Ev("rd", r), Ev("free", r)>>,
         path |-> <<Ev("onlyLeft", r)>>, gm |-> <<>>]
    ELSE
        LET tmp == getMax(h, h[r].left)
            h1  == [h EXCEPT ![r].data = h[tmp].data]
            s   == delete_nearest(h1, h1[r].left, h1[tmp].data)
        IN
        [h |-> [s.h EXCEPT ![r].left = s.root],
         root |-> r,
         ev |-> <<Ev("rd", r)>> \o getMaxEv(h, h[r].left)
                \o <<Ev("rd", tmp), Ev("wr", r), Ev("rd", r), Ev("rd", tmp)>>
                \o s.ev \o <<Ev("wr", r)>>,
         path |-> <<Ev("two", r)>> \o s.path,
         gm |-> <<Ev(h[r].left, tmp)>> \o s.gm]

\* Mutant: a leaf is unlinked without being freed.
RECURSIVE delete_noFree(_, _, _)
delete_noFree(h, r, data) ==
    IF r = NULL THEN
        [h |-> h, root |-> r, ev |-> <<>>,
         path |-> <<Ev("null", r)>>, gm |-> <<>>]
    ELSE IF data > h[r].data THEN
        LET s == delete_noFree(h, h[r].right, data) IN
        [h |-> [s.h EXCEPT ![r].right = s.root],
         root |-> r,
         ev |-> <<Ev("rd", r)>> \o s.ev \o <<Ev("wr", r)>>,
         path |-> <<Ev("right", r)>> \o s.path, gm |-> s.gm]
    ELSE IF data < h[r].data THEN
        LET s == delete_noFree(h, h[r].left, data) IN
        [h |-> [s.h EXCEPT ![r].left = s.root],
         root |-> r,
         ev |-> <<Ev("rd", r)>> \o s.ev \o <<Ev("wr", r)>>,
         path |-> <<Ev("left", r)>> \o s.path, gm |-> s.gm]
    ELSE IF h[r].left = NULL /\ h[r].right = NULL THEN
        [h |-> h,
         root |-> NULL,
         ev |-> <<Ev("rd", r)>>,
         path |-> <<Ev("leaf", r)>>, gm |-> <<>>]
    ELSE IF h[r].left = NULL THEN
        [h |-> [h EXCEPT ![r] = Garbage],
         root |-> h[r].right,
         ev |-> <<Ev("rd", r), Ev("free", r)>>,
         path |-> <<Ev("onlyRight", r)>>, gm |-> <<>>]
    ELSE IF h[r].right = NULL THEN
        [h |-> [h EXCEPT ![r] = Garbage],
         root |-> h[r].left,
         ev |-> <<Ev("rd", r), Ev("free", r)>>,
         path |-> <<Ev("onlyLeft", r)>>, gm |-> <<>>]
    ELSE
        LET tmp == getMax(h, h[r].left)
            h1  == [h EXCEPT ![r].data = h[tmp].data]
            s   == delete_noFree(h1, h1[r].left, h1[tmp].data)
        IN
        [h |-> [s.h EXCEPT ![r].left = s.root],
         root |-> r,
         ev |-> <<Ev("rd", r)>> \o getMaxEv(h, h[r].left)
                \o <<Ev("rd", tmp), Ev("wr", r), Ev("rd", r), Ev("rd", tmp)>>
                \o s.ev \o <<Ev("wr", r)>>,
         path |-> <<Ev("two", r)>> \o s.path,
         gm |-> <<Ev(h[r].left, tmp)>> \o s.gm]

\* Mutant: a node with only a left child takes over the content of that child, and
\* the child's cell is freed instead of the node's.
RECURSIVE delete_copyUp(_, _, _)
delete_copyUp(h, r, data) ==
    IF r = NULL THEN
        [h |-> h, root |-> r, ev |-> <<>>,
         path |-> <<Ev("null", r)>>, gm |-> <<>>]
    ELSE IF data > h[r].data THEN
        LET s == delete_copyUp(h, h[r].right, data) IN
        [h |-> [s.h EXCEPT ![r].right = s.root],
         root |-> r,
         ev |-> <<Ev("rd", r)>> \o s.ev \o <<Ev("wr", r)>>,
         path |-> <<Ev("right", r)>> \o s.path, gm |-> s.gm]
    ELSE IF data < h[r].data THEN
        LET s == delete_copyUp(h, h[r].left, data) IN
        [h |-> [s.h EXCEPT ![r].left = s.root],
         root |-> r,
         ev |-> <<Ev("rd", r)>> \o s.ev \o <<Ev("wr", r)>>,
         path |-> <<Ev("left", r)>> \o s.path, gm |-> s.gm]
    ELSE IF h[r].left = NULL /\ h[r].right = NULL THEN
        [h |-> [h EXCEPT ![r] = Garbage],
         root |-> NULL,
         ev |-> <<Ev("rd", r), Ev("free", r)>>,
         path |-> <<Ev("leaf", r)>>, gm |-> <<>>]
    ELSE IF h[r].left = NULL THEN
        [h |-> [h EXCEPT ![r] = Garbage],
         root |-> h[r].right,
         ev |-> <<Ev("rd", r), Ev("free", r)>>,
         path |-> <<Ev("onlyRight", r)>>, gm |-> <<>>]
    ELSE IF h[r].right = NULL THEN
        [h |-> [h EXCEPT ![r] = h[h[r].left], ![h[r].left] = Garbage],
         root |-> r,
         ev |-> <<Ev("rd", r), Ev("rd", h[r].left), Ev("wr", r),
                  Ev("free", h[r].left)>>,
         path |-> <<Ev("onlyLeft", r)>>, gm |-> <<>>]
    ELSE
        LET tmp == getMax(h, h[r].left)
            h1  == [h EXCEPT ![r].data = h[tmp].data]
            s   == delete_copyUp(h1, h1[r].left, h1[tmp].data)
        IN
        [h |-> [s.h EXCEPT ![r].left = s.root],
         root |-> r,
         ev |-> <<Ev("rd", r)>> \o getMaxEv(h, h[r].left)
                \o <<Ev("rd", tmp), Ev("wr", r), Ev("rd", r), Ev("rd", tmp)>>
                \o s.ev \o <<Ev("wr", r)>>,
         path |-> <<Ev("two", r)>> \o s.path,
         gm |-> <<Ev(h[r].left, tmp)>> \o s.gm]

\* Mutant: a node with only a left child is replaced by its (empty) right link.
RECURSIVE delete_wrongChild(_, _, _)
delete_wrongChild(h, r, data) ==
    IF r = NULL THEN
        [h |-> h, root |-> r, ev |-> <<>>,
         path |-> <<Ev("null", r)>>, gm |-> <<>>]
    ELSE IF data > h[r].data THEN
        LET s == delete_wrongChild(h, h[r].right, data) IN
        [h |-> [s.h EXCEPT ![r].right = s.root],
         root |-> r,
         ev |-> <<Ev("rd", r)>> \o s.ev \o <<Ev("wr", r)>>,
         path |-> <<Ev("right", r)>> \o s.path, gm |-> s.gm]
    ELSE IF data < h[r].data THEN
        LET s == delete_wrongChild(h, h[r].left, data) IN
        [h |-> [s.h EXCEPT ![r].left = s.root],
         root |-> r,
         ev |-> <<Ev("rd", r)>> \o s.ev \o <<Ev("wr", r)>>,
         path |-> <<Ev("left", r)>> \o s.path, gm |-> s.gm]
    ELSE IF h[r].left = NULL /\ h[r].right = NULL THEN
        [h |-> [h EXCEPT ![r] = Garbage],
         root |-> NULL,
         ev |-> <<Ev("rd", r), Ev("free", r)>>,
         path |-> <<Ev("leaf", r)>>, gm |-> <<>>]
    ELSE IF h[r].left = NULL THEN
        [h |-> [h EXCEPT ![r] = Garbage],
         root |-> h[r].right,
         ev |-> <<Ev("rd", r), Ev("free", r)>>,
         path |-> <<Ev("onlyRight", r)>>, gm |-> <<>>]
    ELSE IF h[r].right = NULL THEN
        [h |-> [h EXCEPT ![r] = Garbage],
         root |-> h[r].right,
         ev |-> <<Ev("rd", r), Ev("free", r)>>,
         path |-> <<Ev("onlyLeft", r)>>, gm |-> <<>>]
    ELSE
        LET tmp == getMax(h, h[r].left)
            h1  == [h EXCEPT ![r].data = h[tmp].data]
            s   == delete_wrongChild(h1, h1[r].left, h1[tmp].data)
        IN
        [h |-> [s.h EXCEPT ![r].left = s.root],
         root |-> r,
         ev |-> <<Ev("rd", r)>> \o getMaxEv(h, h[r].left)
                \o <<Ev("rd", tmp), Ev("wr", r), Ev("rd", r), Ev("rd", tmp)>>
                \o s.ev \o <<Ev("wr", r)>>,
         path |-> <<Ev("two", r)>> \o s.path,
         gm |-> <<Ev(h[r].left, tmp)>> \o s.gm]

RECURSIVE delete(_, _, _)
delete(h, r, data) ==
    IF r = NULL THEN
        [h |-> h, root |-> r, ev |-> <<>>,
         path |-> <<Ev("null", r)>>, gm |-> <<>>]
    ELSE IF data > h[r].data THEN
        LET s == delete(h, h[r].right, data) IN
        [h |-> [s.h EXCEPT ![r].right = s.root],
         root |-> r,
         ev |-> <<Ev("rd", r)>> \o s.ev \o <<Ev("wr", r)>>,
         path |-> <<Ev("right", r)>> \o s.path, gm |-> s.gm]
    ELSE IF data < h[r].data THEN
        LET s == delete(h, h[r].left, data) IN
        [h |-> [s.h EXCEPT ![r].left = s.root],
         root |-> r,
         ev |-> <<Ev("rd", r)>> \o s.ev \o <<Ev("wr", r)>>,
         path |-> <<Ev("left", r)>> \o s.path, gm |-> s.gm]
    ELSE IF h[r].left = NULL /\ h[r].right = NULL THEN
        [h |-> [h EXCEPT ![r] = Garbage],
         root |-> NULL,
         ev |-> <<Ev("rd", r), Ev("free", r)>>,
         path |-> <<Ev("leaf", r)>>, gm |-> <<>>]
    ELSE IF h[r].left = NULL THEN
        [h |-> [h EXCEPT ![r] = Garbage],
         root |-> h[r].right,
         ev |-> <<Ev("rd", r), Ev("free", r)>>,
         path |-> <<Ev("onlyRight", r)>>, gm |-> <<>>]
    ELSE IF h[r].right = NULL THEN
        [h |-> [h EXCEPT ![r] = Garbage],
         root |-> h[r].left,
         ev |-> <<Ev("rd", r), Ev("free", r)>>,
         path |-> <<Ev("onlyLeft", r)>>, gm |-> <<>>]
    ELSE
        LET tmp == getMax(h, h[r].left)
            h1  == [h EXCEPT ![r].data = h[tmp].data]
            s   == delete(h1, h1[r].left, h1[tmp].data)
        IN
        [h |-> [s.h EXCEPT ![r].left = s.root],
         root |-> r,
         ev |-> <<Ev("rd", r)>> \o getMaxEv(h, h[r].left)
                \o <<Ev("rd", tmp), Ev("wr", r), Ev("rd", r), Ev("rd", tmp)>>
                \o s.ev \o <<Ev("wr", r)>>,
         path |-> <<Ev("two", r)>> \o s.path,
         gm |-> <<Ev(h[r].left, tmp)>> \o s.gm]

\* ---------------------------------------------------------------- find
\* Mutant: the descent directions are exchanged.
RECURSIVE find_swapped(_, _, _)
find_swapped(h, r, data) ==
    IF r = NULL THEN 0
    ELSE IF data > h[r].data THEN find_swapped(h, h[r].left, data)
    ELSE IF data < h[r].data THEN find_swapped(h, h[r].right, data)
    ELSE IF data = h[r].data THEN 1
    ELSE 0

RECURSIVE find(_, _, _)
find(h, r, data) ==
    IF r = NULL THEN 0
    ELSE IF data > h[r].data THEN find(h, h[r].right, data)
    ELSE IF data < h[r].data THEN find(h, h[r].left, data)
    ELSE IF data = h[r].data THEN 1
    ELSE 0

\* ---------------------------------------------------------------- height
\* Mutant: the smaller of the two subtree heights is kept.
RECURSIVE height_min(_, _)
height_min(h, r) ==
    IF r = NULL THEN 0
    ELSE LET right_h == height_min(h, h[r].right)
             left_h  == height_min(h, h[r].left)
         IN IF right_h < left_h THEN right_h + 1 ELSE left_h + 1

RECURSIVE height(_, _)
height(h, r) ==
    IF r = NULL THEN 0
    ELSE LET right_h == height(h, h[r].right)
             left_h  == height(h, h[r].left)
         IN IF right_h > left_h THEN right_h + 1 ELSE left_h + 1

\* ---------------------------------------------------------------- purge
\* The trace of purge: the node is read for its two links, then freed.

\* Mutant: the node is freed before its subtrees are visited.
RECURSIVE purge_preOrder(_, _)
purge_preOrder(h, r) ==
    IF r # NULL
    THEN <<Ev("free", r)>>
         \o <<Ev("rd", r)>> \o purge_preOrder(h, h[r].left)
         \o <<Ev("rd", r)>> \o purge_preOrder(h, h[r].right)
    ELSE <<>>

RECURSIVE purge(_, _)
purge(h, r) ==
    IF r # NULL
    THEN <<Ev("rd", r)>> \o purge(h, h[r].left)
         \o <<Ev("rd", r)>> \o purge(h, h[r].right)
         \o <<Ev("free", r)>>
    ELSE <<>>

\* ---------------------------------------------------------------- inOrder
\* The keys in the order printf emits them.
\* Mutant: the right subtree is not visited.
RECURSIVE inOrder_noRight(_, _)
inOrder_noRight(h, r) ==
    IF r # NULL
    THEN inOrder_noRight(h, h[r].left) \o <<h[r].data>>
    ELSE <<>>

RECURSIVE inOrder(_, _)
inOrder(h, r) ==
    IF r # NULL
    THEN inOrder(h, h[r].left) \o <<h[r].data>> \o inOrder(h, h[r].right)
    ELSE <<>>

\* The nodes whose key inOrder prints, in the order it prints them.
RECURSIVE inOrderEv(_, _)
inOrderEv(h, r) ==
    IF r # NULL
    THEN inOrderEv(h, h[r].left) \o <<Ev("rd", r)>> \o inOrderEv(h, h[r].right)
    ELSE <<>>

\* ---------------------------------------------------------------- printTree
\* One entry per printed key: the number of blanks before it, and the key.
RECURSIVE printTreeHelper(_, _, _)
printTreeHelper(h, r, space) ==
    IF r = NULL THEN <<>>
    ELSE LET space1 == space + 10 IN
         printTreeHelper(h, h[r].right, space1)
         \o <<[indent |-> space1 - 10, data |-> h[r].data]>>
         \o printTreeHelper(h, h[r].left, space1)

printTree(h, r) ==
    IF r = NULL THEN <<"Tree is empty!">> ELSE printTreeHelper(h, r, 0)

\* ---------------------------------------------------------------- helpers
Freed(ev) == {ev[i][2] : i \in {j \in DOMAIN ev : ev[j][1] = "free"}}
Alloced(ev) == {ev[i][2] : i \in {j \in DOMAIN ev : ev[j][1] = "alloc"}}

Snapshot == [heap |-> heap, alloc |-> alloc, root |-> root]

\* ---------------------------------------------------------------- main
Init ==
    /\ heap = [a \in Addrs |-> Garbage]
    /\ alloc = {}
    /\ root = NULL
    /\ pc = "menu"
    /\ keys = {}
    /\ op = [name |-> "init", arg |-> 0, ret |-> 0, ev |-> <<>>]
    /\ pre = [heap |-> [a \in Addrs |-> Garbage], alloc |-> {}, root |-> NULL]

\* case 1: root = insert(root, data).  When the allocation fails the process
\* is killed inside newNode: nothing is assigned and main never reaches purge.
MenuInsert(data) ==
    /\ pc = "menu"
    /\ LET s == insert(heap, root, data, malloc(alloc)) IN
         IF s.crash
         THEN /\ pc' = "crashed"
              /\ op' = [name |-> "crash", arg |-> data, ret |-> 0, ev |-> s.ev]
              /\ UNCHANGED <<heap, root, alloc, keys>>
         ELSE /\ heap' = s.h
              /\ root' = s.root
              /\ alloc' = alloc \cup Alloced(s.ev)
              /\ op' = [name |-> "insert", arg |-> data, ret |-> s.root, ev |-> s.ev]
              /\ keys' = keys \cup {data}
              /\ UNCHANGED pc
    /\ pre' = Snapshot

\* case 2: root = delete(root, data), only when root != NULL
MenuDelete(data) ==
    /\ pc = "menu"
    /\ IF root # NULL
       THEN LET s == delete(heap, root, data) IN
            /\ heap' = s.h
            /\ root' = s.root
            /\ alloc' = alloc \ Freed(s.ev)
            /\ op' = [name |-> "delete", arg |-> data, ret |-> s.root, ev |-> s.ev]
            /\ keys' = keys \ {data}
       ELSE /\ op' = [name |-> "deleteEmpty", arg |-> 0, ret |-> 0, ev |-> <<>>]
            /\ UNCHANGED <<heap, root, alloc, keys>>
    /\ pre' = Snapshot
    /\ UNCHANGED pc

\* case 3: find(root, data)
MenuFind(data) ==
    /\ pc = "menu"
    /\ op' = [name |-> "find", arg |-> data, ret |-> find(heap, root, data), ev |-> <<>>]
    /\ pre' = Snapshot
    /\ UNCHANGED <<heap, alloc, root, pc, keys>>

\* case 4: height(root)
MenuHeight ==
    /\ pc = "menu"
    /\ op' = [name |-> "height", arg |-> 0, ret |-> height(heap, root), ev |-> <<>>]
    /\ pre' = Snapshot
    /\ UNCHANGED <<heap, alloc, root, pc, keys>>

\* case 5: inOrder(root)
MenuInOrder ==
    /\ pc = "menu"
    /\ op' = [name |-> "inOrder", arg |-> 0, ret |-> inOrder(heap, root), ev |-> <<>>]
    /\ pre' = Snapshot
    /\ UNCHANGED <<heap, alloc, root, pc, keys>>

\* case 6: printTree(root)
MenuPrintTree ==
    /\ pc = "menu"
    /\ op' = [name |-> "printTree", arg |-> 0, ret |-> printTree(heap, root), ev |-> <<>>]
    /\ pre' = Snapshot
    /\ UNCHANGED <<heap, alloc, root, pc, keys>>

\* opt == 0: the while loop ends
MenuQuit ==
    /\ pc = "menu"
    /\ pc' = "loopDone"
    /\ op' = [name |-> "quit", arg |-> 0, ret |-> 0, ev |-> <<>>]
    /\ pre' = Snapshot
    /\ UNCHANGED <<heap, alloc, root, keys>>

\* Mutant: the handle is cleared after the purge.
MainPurge_reset ==
    /\ pc = "loopDone"
    /\ LET ev == purge(heap, root) IN
         /\ op' = [name |-> "purge", arg |-> root, ret |-> 0, ev |-> ev]
         /\ alloc' = alloc \ Freed(ev)
         /\ heap' = [a \in Addrs |-> IF a \in Freed(ev) THEN Garbage ELSE heap[a]]
    /\ pc' = "exit"
    /\ pre' = Snapshot
    /\ root' = NULL
    /\ UNCHANGED keys

\* Mutant: main does not leave after the purge, so purge can run again.
MainPurge_again ==
    /\ pc = "loopDone"
    /\ LET ev == purge(heap, root) IN
         /\ op' = [name |-> "purge", arg |-> root, ret |-> 0, ev |-> ev]
         /\ alloc' = alloc \ Freed(ev)
         /\ heap' = [a \in Addrs |-> IF a \in Freed(ev) THEN Garbage ELSE heap[a]]
    /\ pc' = "loopDone"
    /\ pre' = Snapshot
    /\ UNCHANGED <<root, keys>>

\* purge(root); return 0;   -- root is passed by value and stays as it was
MainPurge ==
    /\ pc = "loopDone"
    /\ LET ev == purge(heap, root) IN
         /\ op' = [name |-> "purge", arg |-> root, ret |-> 0, ev |-> ev]
         /\ alloc' = alloc \ Freed(ev)
         /\ heap' = [a \in Addrs |-> IF a \in Freed(ev) THEN Garbage ELSE heap[a]]
    /\ pc' = "exit"
    /\ pre' = Snapshot
    /\ UNCHANGED <<root, keys>>

Next ==
    \/ \E data \in Keys : MenuInsert(data)
    \/ \E data \in Keys : MenuDelete(data)
    \/ \E data \in FindKeys : MenuFind(data)
    \/ MenuHeight
    \/ MenuInOrder
    \/ MenuPrintTree
    \/ MenuQuit
    \/ MainPurge

Spec == Init /\ [][Next]_vars

TypeOK ==
    /\ alloc \subseteq Addrs
    /\ root \in Addrs \cup {NULL}
    /\ pc \in {"menu", "loopDone", "exit", "crashed"}

\* ================================================================ properties
\* The addresses of the nodes of the tree rooted at r.
RECURSIVE Reach(_, _)
Reach(h, r) ==
    IF r = NULL THEN {} ELSE {r} \cup Reach(h, h[r].left) \cup Reach(h, h[r].right)

KeysOf(h, r) == {h[n].data : n \in Reach(h, r)}

\* The tree as a value: <<>> when empty, else <<left, key, right>>.
RECURSIVE Shape(_, _)
Shape(h, r) ==
    IF r = NULL THEN <<>>
    ELSE <<Shape(h, h[r].left), h[r].data, Shape(h, h[r].right)>>

StrictlyAscending(s) == \A i \in 1..(Len(s) - 1) : s[i] < s[i + 1]

Occurrences(s, k) == Cardinality({i \in DOMAIN s : s[i] = k})

Without(s, k) == LET Keep(x) == x # k IN SelectSeq(s, Keep)

SetMax(S) == CHOOSE x \in S : \A y \in S : y <= x

\* Number of levels of the tree, counted breadth-first from the set S of nodes.
RECURSIVE Levels(_, _)
Levels(h, S) ==
    IF S = {} THEN 0
    ELSE 1 + Levels(h, ({h[n].left : n \in S} \cup {h[n].right : n \in S}) \ {NULL})

Live == pc \in {"menu", "loopDone"}       \* the tree has not been purged yet

PreInOrder == inOrder(pre.heap, pre.root)
PreHas(k) == k \in KeysOf(pre.heap, pre.root)

\* The node of the tree before the call that holds key k.
PreNode(k) == CHOOSE n \in Reach(pre.heap, pre.root) : pre.heap[n].data = k

TwoChildDelete ==
    /\ op.name = "delete"
    /\ PreHas(op.arg)
    /\ pre.heap[PreNode(op.arg)].left # NULL
    /\ pre.heap[PreNode(op.arg)].right # NULL

\* The tree main holds after inserting 5, 3, 8, 1, 4 into the empty tree.
RECURSIVE Build(_, _, _, _)
Build(h, al, r, seq) ==
    IF seq = <<>> THEN [h |-> h, alloc |-> al, root |-> r]
    ELSE LET s == insert(h, r, Head(seq), malloc(al)) IN
         Build(s.h, al \cup Alloced(s.ev), s.root, Tail(seq))

Scenario == Build([a \in Addrs |-> Garbage], {}, NULL, <<5, 3, 8, 1, 4>>)

InScenario == Live /\ heap = Scenario.h /\ root = Scenario.root /\ alloc = Scenario.alloc

\* ---------------------------------------------------------------- C1
\* C1: after any sequence of inserts and deletes, every node's left subtree
\* holds only smaller keys and its right subtree only greater keys, and the
\* in-order traversal is strictly ascending.
C1_BSTProperty ==
    Live =>
        /\ \A n \in Reach(heap, root) :
              /\ \A m \in Reach(heap, heap[n].left) : heap[m].data < heap[n].data
              /\ \A m \in Reach(heap, heap[n].right) : heap[m].data > heap[n].data
        /\ StrictlyAscending(inOrder(heap, root))

\* A two-child deletion has just taken place in a tree of five keys.
C1_Witness ==
    /\ TwoChildDelete
    /\ Len(PreInOrder) = 5
    /\ Len(inOrder(heap, root)) = 4

\* ---------------------------------------------------------------- C2
\* C2: find returns 1 exactly for the keys inserted and not subsequently
\* deleted, and 0 for every other key.
C2_FindAgreesWithSet ==
    Live =>
        /\ \A k \in FindKeys : find(heap, root, k) = (IF k \in keys THEN 1 ELSE 0)
        /\ op.name = "find" => op.ret = (IF op.arg \in keys THEN 1 ELSE 0)

\* find has just reported a key that sits below the root, in a tree from
\* which a key is missing.
C2_Witness ==
    /\ op.name = "find"
    /\ op.ret = 1
    /\ op.arg # heap[root].data
    /\ Cardinality(keys) = 3

\* ---------------------------------------------------------------- C3
\* C3: deleting a present key k leaves the in-order sequence of before with
\* its single occurrence of k removed.
C3_DeletePresent ==
    (op.name = "delete" /\ PreHas(op.arg)) =>
        /\ Occurrences(PreInOrder, op.arg) = 1
        /\ inOrder(heap, root) = Without(PreInOrder, op.arg)
        /\ KeysOf(heap, root) = KeysOf(pre.heap, pre.root) \ {op.arg}

\* A key that is neither the least nor the greatest of four or more was deleted.
C3_Witness ==
    /\ op.name = "delete"
    /\ PreHas(op.arg)
    /\ Len(PreInOrder) >= 4
    /\ op.arg # PreInOrder[1]
    /\ op.arg # PreInOrder[Len(PreInOrder)]
    /\ Len(inOrder(heap, root)) = Len(PreInOrder) - 1

\* ---------------------------------------------------------------- C4
\* C4: inserting a key that is already present allocates nothing, returns the
\* same root and leaves every node's key and links as they were.
C4_InsertPresentNoOp ==
    (op.name = "insert" /\ PreHas(op.arg)) =>
        /\ Alloced(op.ev) = {}
        /\ alloc = pre.alloc
        /\ op.ret = pre.root
        /\ root = pre.root
        /\ heap = pre.heap
        /\ Shape(heap, root) = Shape(pre.heap, pre.root)
        /\ inOrder(heap, root) = PreInOrder

\* A key held by a node below the root was inserted again.
C4_Witness ==
    /\ op.name = "insert"
    /\ PreHas(op.arg)
    /\ op.arg # pre.heap[pre.root].data
    /\ Cardinality(pre.alloc) >= 3
    /\ heap = pre.heap

\* ---------------------------------------------------------------- C5
\* C5: deleting a key that is not present (also from the empty tree) frees
\* nothing, overwrites no key and leaves root, links and in-order sequence
\* as they were.
C5_DeleteAbsentNoOp ==
    /\ (op.name = "delete" /\ ~PreHas(op.arg)) =>
          /\ Freed(op.ev) = {}
          /\ alloc = pre.alloc
          /\ op.ret = pre.root
          /\ root = pre.root
          /\ heap = pre.heap
          /\ inOrder(heap, root) = PreInOrder
    /\ op.name = "deleteEmpty" =>
          heap = pre.heap /\ root = pre.root /\ alloc = pre.alloc
    /\ \A k \in FindKeys :
          LET s == delete(heap, NULL, k) IN
          s.h = heap /\ s.root = NULL /\ s.ev = <<>>

\* An absent key was deleted from a tree of three or more nodes.
C5_Witness ==
    /\ op.name = "delete"
    /\ ~PreHas(op.arg)
    /\ Cardinality(pre.alloc) >= 3
    /\ heap = pre.heap

\* ---------------------------------------------------------------- C6
\* C6: when the matched node has two children it stays in place with its right
\* subtree, its key becomes the greatest key of its former left subtree, and
\* the node that held that key is removed; deleting 5 from the tree built by
\* 5,3,8,1,4 leaves root key 4 and in-order sequence 1,3,4,8.
C6_TwoChildDelete ==
    TwoChildDelete =>
        LET n     == PreNode(op.arg)
            l     == pre.heap[n].left
            left  == Reach(pre.heap, l)
            predK == SetMax(KeysOf(pre.heap, l))
            p     == CHOOSE x \in left : pre.heap[x].data = predK
        IN
        /\ n \in alloc
        /\ root = pre.root
        /\ \A m \in Reach(pre.heap, pre.root) \ (left \cup {n}) : heap[m] = pre.heap[m]
        /\ heap[n].right = pre.heap[n].right
        /\ Shape(heap, heap[n].right) = Shape(pre.heap, pre.heap[n].right)
        /\ heap[n].data = predK
        /\ \A k \in KeysOf(pre.heap, pre.root) :
              k < op.arg => k <= predK
        /\ Freed(op.ev) = {p}
        /\ alloc = pre.alloc \ {p}
        /\ Reach(heap, heap[n].left) = left \ {p}
        /\ KeysOf(heap, heap[n].left) = KeysOf(pre.heap, l) \ {predK}
        /\ (Shape(pre.heap, pre.root) = Shape(Scenario.h, Scenario.root) /\ op.arg = 5) =>
              /\ heap[root].data = 4
              /\ inOrder(heap, root) = <<1, 3, 4, 8>>

\* 5 was deleted from the tree built by 5,3,8,1,4.
C6_Witness ==
    /\ TwoChildDelete
    /\ op.arg = 5
    /\ Shape(pre.heap, pre.root) = Shape(Scenario.h, Scenario.root)
    /\ heap[root].data = 4

\* ---------------------------------------------------------------- C7
\* C7: height is 0 for the empty tree, 1 for a single node, and for n >= 1
\* keys it is between 1 and n and equals the number of nodes on the longest
\* path from the root to a leaf.
C7_Height ==
    Live =>
        LET ht == height(heap, root)
            n  == Cardinality(keys)
        IN
        /\ root = NULL => ht = 0
        /\ n = 0 => ht = 0
        /\ n = 1 => ht = 1
        /\ n >= 1 => (1 <= ht /\ ht <= n)
        /\ ht = Levels(heap, {root} \ {NULL})
        /\ op.name = "height" => op.ret = ht

\* height was asked on a five-key tree of three levels.
C7_Witness ==
    /\ op.name = "height"
    /\ op.ret = 3
    /\ Cardinality(keys) = 5

\* ---------------------------------------------------------------- C8
\* C8: inserting 5, 3, 8, 1, 4 into the empty tree gives in-order sequence
\* 1,3,4,5,8 and height 3; find(4) is true and find(9) is false.
C8_Scenario ==
    InScenario =>
        /\ inOrder(heap, root) = <<1, 3, 4, 5, 8>>
        /\ height(heap, root) = 3
        /\ find(heap, root, 4) = 1
        /\ find(heap, root, 9) = 0
        /\ (op.name = "inOrder" => op.ret = <<1, 3, 4, 5, 8>>)
        /\ (op.name = "height" => op.ret = 3)
        /\ ((op.name = "find" /\ op.arg = 4) => op.ret = 1)
        /\ ((op.name = "find" /\ op.arg = 9) => op.ret = 0)

\* The fifth insert, of key 4, has just completed the scenario's tree.
C8_Witness ==
    /\ InScenario
    /\ op.name = "insert"
    /\ op.arg = 4
    /\ Cardinality(pre.alloc) = 4

\* ---------------------------------------------------------------- C9
\* C9: purge frees every node reachable from the root exactly once, each node
\* after all nodes of its two subtrees, never touches a node it has already
\* freed, and leaves no node allocated.
C9_PurgePostOrder ==
    op.name = "purge" =>
        LET ev    == op.ev
            nodes == Reach(pre.heap, pre.root)
            FreeAt(n) == {i \in DOMAIN ev : ev[i] = Ev("free", n)}
            At(n) == CHOOSE i \in FreeAt(n) : TRUE
        IN
        /\ \A n \in nodes : Cardinality(FreeAt(n)) = 1
        /\ Freed(ev) = nodes
        /\ \A n \in nodes :
              \A m \in Reach(pre.heap, pre.heap[n].left)
                       \cup Reach(pre.heap, pre.heap[n].right) : At(m) < At(n)
        /\ \A i \in DOMAIN ev : \A j \in DOMAIN ev :
              (ev[i][1] = "free" /\ j > i) => ev[j][2] # ev[i][2]
        /\ alloc = {}

\* A tree whose root has two children, one of them with a child, was purged.
C9_Witness ==
    /\ op.name = "purge"
    /\ pre.root # NULL
    /\ pre.heap[pre.root].left # NULL
    /\ pre.heap[pre.root].right # NULL
    /\ Cardinality(pre.alloc) >= 4
    /\ alloc = {}

\* ---------------------------------------------------------------- C10
\* C10 as stated: once purge has completed, the caller's handle is empty.
C10_HandleReset ==
    pc = "exit" => root = NULL

\* C10, amended: purge leaves the caller's handle as it was (empty only if the
\* tree was already empty, otherwise still the address of the freed former
\* root); every node is freed and main makes no further call.
C10_HandleKept ==
    pc = "exit" =>
        /\ op.name = "purge"
        /\ root = pre.root
        /\ op.arg = root
        /\ (pre.alloc # {} => (root # NULL /\ root \notin alloc /\ root \in Freed(op.ev)))
        /\ (pre.alloc = {} => root = NULL)
        /\ alloc = {}
        /\ ~ENABLED Next

\* A non-empty tree was purged.
C10_Witness ==
    /\ pc = "exit"
    /\ op.name = "purge"
    /\ Cardinality(pre.alloc) >= 2
    /\ root # NULL

\* ================================================================ C11..C17
\* TRUE when every event of the trace touches a cell that is allocated at that
\* point: nothing is read, written or freed after its free, nothing is
\* allocated twice.
RECURSIVE TraceSafe(_, _)
TraceSafe(ev, live) ==
    IF ev = <<>> THEN TRUE
    ELSE LET e == Head(ev) IN
         IF e[1] = "alloc"
         THEN e[2] # NULL /\ e[2] \notin live /\ TraceSafe(Tail(ev), live \cup {e[2]})
         ELSE IF e[1] = "free"
         THEN e[2] \in live /\ TraceSafe(Tail(ev), live \ {e[2]})
         ELSE e[2] \in live /\ TraceSafe(Tail(ev), live)

Count(ev, kind) == Cardinality({i \in DOMAIN ev : ev[i][1] = kind})

\* The last delete call, evaluated again on the tree it was given.
PreDelete == delete(pre.heap, pre.root, op.arg)

OneChildDelete ==
    /\ op.name = "delete"
    /\ PreHas(op.arg)
    /\ \/ pre.heap[PreNode(op.arg)].left = NULL
       \/ pre.heap[PreNode(op.arg)].right = NULL

\* ---------------------------------------------------------------- C11
\* C11: the allocated cells are exactly the nodes reachable from the root; no
\* call touches a freed cell or frees a cell twice; inserting an absent key
\* allocates exactly one node and deleting a present key frees exactly one.
C11_AllocIsReachable ==
    /\ Live =>
          /\ alloc = Reach(heap, root)
          /\ \A n \in Reach(heap, root) :
                {heap[n].left, heap[n].right} \subseteq alloc \cup {NULL}
    /\ op.name \in {"insert", "delete"} => TraceSafe(op.ev, pre.alloc)
    /\ (op.name = "insert" /\ ~PreHas(op.arg)) =>
          /\ Count(op.ev, "alloc") = 1
          /\ Count(op.ev, "free") = 0
          /\ Cardinality(alloc) = Cardinality(pre.alloc) + 1
    /\ (op.name = "delete" /\ PreHas(op.arg)) =>
          /\ Count(op.ev, "free") = 1
          /\ Count(op.ev, "alloc") = 0
          /\ Cardinality(alloc) = Cardinality(pre.alloc) - 1

\* A delete on a tree of three or more nodes freed exactly one node, and not
\* the one that held the key (the two-child case).
C11_Witness ==
    /\ op.name = "delete"
    /\ PreHas(op.arg)
    /\ Cardinality(pre.alloc) >= 3
    /\ Freed(op.ev) # {PreNode(op.arg)}
    /\ Count(op.ev, "free") = 1
    /\ alloc = Reach(heap, root)

\* ---------------------------------------------------------------- C12
\* C12: a delete makes at most height+1 nested calls, each on a child of the
\* node of the call before; the two-child case is entered at most once, and
\* after it the nested calls only go right until they end in the leaf case or
\* the only-left-child case at a node without right child.
C12_DeleteTerminates ==
    op.name = "delete" =>
        LET path == PreDelete.path
            n    == Len(path)
            twos == {i \in DOMAIN path : path[i][1] = "two"}
        IN
        /\ n >= 1
        /\ n <= height(pre.heap, pre.root) + 1
        /\ path[1][2] = pre.root
        /\ \A i \in 1..(n - 1) :
              path[i + 1][2] \in {pre.heap[path[i][2]].left, pre.heap[path[i][2]].right}
        /\ Cardinality(twos) <= 1
        /\ \A i \in twos :
              /\ i < n
              /\ path[i + 1][2] = pre.heap[path[i][2]].left
              /\ \A j \in (i + 1)..(n - 1) : path[j][1] = "right"
              /\ path[n][1] \in {"leaf", "onlyLeft"}
              /\ pre.heap[path[n][2]].right = NULL

\* A two-child delete whose nested call went right and ended at a
\* predecessor that has a left child.
C12_Witness ==
    /\ TwoChildDelete
    /\ LET path == PreDelete.path IN
         /\ Len(path) >= 3
         /\ path[Len(path) - 1][1] = "right"
         /\ path[Len(path)][1] = "onlyLeft"

\* ---------------------------------------------------------------- C13
\* C13: an insert changes no existing key, and for an absent key it fills
\* exactly one empty slot (a child link or the root) with a new leaf and
\* leaves the rest alone; a delete overwrites the key of at most one node, and
\* only of the matched node when it has two children.
C13_KeyFrame ==
    /\ op.name = "insert" =>
          /\ \A n \in pre.alloc : heap[n].data = pre.heap[n].data
          /\ ~PreHas(op.arg) =>
                LET new   == alloc \ pre.alloc
                    slots == {<<n, "left">> : n \in {m \in pre.alloc :
                                  heap[m].left # pre.heap[m].left}}
                             \cup {<<n, "right">> : n \in {m \in pre.alloc :
                                  heap[m].right # pre.heap[m].right}}
                             \cup (IF root # pre.root THEN {<<NULL, "root">>} ELSE {})
                    Old(sl) == IF sl[2] = "root" THEN pre.root
                               ELSE IF sl[2] = "left" THEN pre.heap[sl[1]].left
                               ELSE pre.heap[sl[1]].right
                    New(sl) == IF sl[2] = "root" THEN root
                               ELSE IF sl[2] = "left" THEN heap[sl[1]].left
                               ELSE heap[sl[1]].right
                IN
                /\ Cardinality(new) = 1
                /\ \A a \in new :
                      heap[a] = [left |-> NULL, right |-> NULL, data |-> op.arg]
                /\ Cardinality(slots) = 1
                /\ \A sl \in slots : Old(sl) = NULL /\ New(sl) \in new
          /\ PreHas(op.arg) => heap = pre.heap
    /\ op.name = "delete" =>
          LET over == {n \in pre.alloc \cap alloc : heap[n].data # pre.heap[n].data}
          IN
          /\ Cardinality(over) <= 1
          /\ over # {} => (TwoChildDelete /\ over = {PreNode(op.arg)})
          /\ Cardinality(over) = Count(PreDelete.path, "two")
          /\ ~TwoChildDelete => over = {}

\* An absent key was inserted as a leaf two or more levels below the root.
C13_Witness ==
    /\ op.name = "insert"
    /\ ~PreHas(op.arg)
    /\ Cardinality(pre.alloc) >= 3
    /\ root = pre.root
    /\ heap[root].left \in pre.alloc \cup {NULL}
    /\ heap[root].right \in pre.alloc \cup {NULL}
    /\ Cardinality(alloc \ pre.alloc) = 1

\* ---------------------------------------------------------------- C14
\* C14: a matched node with at most one child is removed and its slot (in the
\* parent or the root handle) receives empty, the right subtree or the left
\* subtree; the promoted subtree keeps shape and keys and no other node
\* changes.
C14_OneChildDelete ==
    OneChildDelete =>
        LET n       == PreNode(op.arg)
            l       == pre.heap[n].left
            r       == pre.heap[n].right
            child   == IF l = NULL THEN r ELSE l
            parents == {p \in Reach(pre.heap, pre.root) :
                           pre.heap[p].left = n \/ pre.heap[p].right = n}
        IN
        /\ Freed(op.ev) = {n}
        /\ alloc = pre.alloc \ {n}
        /\ IF n = pre.root
           THEN root = child /\ parents = {}
           ELSE /\ root = pre.root
                /\ Cardinality(parents) = 1
                /\ \A p \in parents :
                      heap[p] = IF pre.heap[p].left = n
                                THEN [pre.heap[p] EXCEPT !.left = child]
                                ELSE [pre.heap[p] EXCEPT !.right = child]
        /\ \A m \in pre.alloc \ ({n} \cup parents) : heap[m] = pre.heap[m]
        /\ Reach(heap, child) = Reach(pre.heap, child)
        /\ Shape(heap, child) = Shape(pre.heap, child)
        /\ Shape(heap, child) = IF l = NULL THEN Shape(pre.heap, r)
                                ELSE Shape(pre.heap, l)

\* A node below the root with only a left child, itself with a child, was
\* deleted.
C14_Witness ==
    /\ OneChildDelete
    /\ PreNode(op.arg) # pre.root
    /\ pre.heap[PreNode(op.arg)].left # NULL
    /\ Cardinality(Reach(pre.heap, pre.heap[PreNode(op.arg)].left)) >= 2
    /\ PreNode(op.arg) \notin alloc

\* ---------------------------------------------------------------- C15
\* C15: the in-order traversal visits every node reachable from the root
\* exactly once; its sequence holds each key of the abstract set exactly once
\* and nothing else; there are as many nodes as keys.
C15_InOrderIsKeySet ==
    Live =>
        LET seq   == inOrder(heap, root)
            visit == inOrderEv(heap, root)
            nodes == Reach(heap, root)
        IN
        /\ Len(visit) = Cardinality(nodes)
        /\ {visit[i][2] : i \in DOMAIN visit} = nodes
        /\ Len(seq) = Len(visit)
        /\ \A i \in DOMAIN seq : seq[i] = heap[visit[i][2]].data
        /\ \A k \in keys : Occurrences(seq, k) = 1
        /\ {seq[i] : i \in DOMAIN seq} = keys
        /\ Cardinality(nodes) = Cardinality(keys)
        /\ op.name = "inOrder" => op.ret = seq

\* The traversal was run on a tree of four keys from which 5 is missing.
C15_Witness ==
    /\ op.name = "inOrder"
    /\ Len(op.ret) = 4
    /\ keys = {1, 3, 4, 8}
    /\ heap[root].right # NULL

\* ---------------------------------------------------------------- C16
\* C16: getMax is only called from the two-child case, on the matched node's
\* non-empty left child, and returns the node of that subtree with the
\* greatest key, which has no right child.
C16_GetMaxCalls ==
    op.name = "delete" =>
        LET gm == PreDelete.gm IN
        /\ Len(gm) = Count(PreDelete.path, "two")
        /\ Len(gm) > 0 => (TwoChildDelete /\ gm[1][1] = pre.heap[PreNode(op.arg)].left)
        /\ \A i \in DOMAIN gm :
              /\ gm[i][1] # NULL
              /\ gm[i][1] \in pre.alloc
              /\ gm[i][2] \in Reach(pre.heap, gm[i][1])
              /\ pre.heap[gm[i][2]].right = NULL
              /\ pre.heap[gm[i][2]].data = SetMax(KeysOf(pre.heap, gm[i][1]))

\* getMax descended two links to the right before it returned.
C16_Witness ==
    /\ TwoChildDelete
    /\ Len(PreDelete.gm) = 1
    /\ LET a == PreDelete.gm[1][1] IN
         /\ pre.heap[a].right # NULL
         /\ pre.heap[pre.heap[a].right].right = PreDelete.gm[1][2]
         /\ PreDelete.gm[1][2] # NULL

\* ---------------------------------------------------------------- C17
\* C17: main purges only once the menu loop has ended, the purge is the one
\* step taken after the loop, it is followed by the exit, and no call is made
\* after it.
C17_PurgeOnceAtExit ==
    [][ /\ pc # "exit"
        /\ (op'.name = "purge") <=> (pc = "loopDone")
        /\ pc = "loopDone" => (pc' = "exit" /\ root' = root)
        /\ pc' = "loopDone" => (pc = "menu" /\ op'.name = "quit")
        /\ pc' = "exit" => pc = "loopDone"
      ]_vars

\* main has left after purging a tree of five nodes.
C17_Witness ==
    /\ pc = "exit"
    /\ op.name = "purge"
    /\ Cardinality(pre.alloc) = 5
    /\ Count(op.ev, "free") = 5
====
